---- MODULE Spec2Model ----
(***************************************************************************)
(* Model of the csf-prf Composite Source Creator:                          *)
(*   - CompositeSourceCreatorEngine.split_inner_polygons (ring decomposer) *)
(*   - ENCReaderEngine.get_enc_geometries / perform_spatial_filter         *)
(*   - CompositeSourceCreatorEngine.convert_enc_files                      *)
(*   - CompositeSourceCreatorEngine.start and the steps it calls           *)
(* Three specifications share the module: SpecSplit drives the ring        *)
(* decomposer over the rows of a sheets layer, SpecENC drives the ENC      *)
(* reader (normalization, spatial filter) from convert_enc_files,          *)
(* SpecStart drives the steps of start, called one by one or by start.     *)
(***************************************************************************)
EXTENDS Integers, Sequences, FiniteSets, TLC

(* ------------------------------ bounds -------------------------------- *)
\* rows the search cursor yields
MaxRows == 2
\* parts (arcpy Arrays) of one polygon geometry
MaxParts == 1
\* entries (vertices and sentinels) of all streams of the layer together
MaxTotalLen == 5
\* distinct vertices
NumVertices == 2
\* records the ENC file yields
MaxRecords == 2
\* coordinates of one MultiPoint record
MaxPoints == 2
\* calls of perform_spatial_filter on one engine
MaxFilterRuns == 2
\* methods called on the engine one by one before start is called
MaxCalls == 2

(* --------------------------- ring decomposer -------------------------- *)
\* the sentinel that separates the rings of a flattened vertex stream
None == 0

Vertices == 1..NumVertices

\* what one entry of an arcpy Array can be
Entries == Vertices \cup {None}

\* row[1:] of the row with object id oid, read with ['SHAPE@'] + ["*"]: the
\* columns OBJECTID, Shape and the survey's registry number
AttributeRows(oid) == {<<oid, "Shape", "H13384">>, <<oid, "Shape", "H13385">>}

VARIABLES
  layer,           \* rows the search cursor has yielded so far; the last one is `row`
  geom_num,        \* parts of the current row already split
  outer_features,  \* list of {'attributes', 'geometry'}
  inner_features,  \* list of {'attributes', 'geometry'}
  total_nones,     \* sentinels counted so far
  split_pc,        \* "cursor" while the cursor is open, "returned" after the return,
                   \* "written" after write_features_to_shapefile
  sheets_shapefile, \* rows inserted into output_sheets.shp
  sheets_param,    \* param_lookup['sheets'].valueAsText
  sheets_layer,    \* the merged sheets layer: the locations the sheets cover
  enc_pc,          \* position of convert_enc_files / ENCReaderEngine.start
  feature,         \* the record get_enc_geometries read last
  records_read,    \* records read from the ENC file so far
  heap,            \* the geojson dictionaries alive; a feature holds a reference
  geometries,      \* ENCReaderEngine.geometries
  memory,          \* the feature classes of arcpy's 'memory' workspace
  filter_runs,     \* calls of perform_spatial_filter so far
  params,          \* which of the other input parameters have a value
  start_pc,        \* "idle" before start, then the step start is about to call,
                   \* then "done" or "raised"
  calls,           \* methods called one by one so far
  output_data,     \* CompositeSourceCreatorEngine.output_data
  output_db,       \* CompositeSourceCreatorEngine.output_db
  output_db_path,  \* CompositeSourceCreatorEngine.output_db_path
  databases,       \* GeoPackage databases arcpy has created
  exported,        \* the output names ExportFeatures has copied into the GeoPackage
  thrown,          \* the error a collaborator raised during start, "none" if none
  error            \* the error the last call on the engine ended with, "none" if none

splitVars == <<layer, geom_num, outer_features, inner_features, total_nones, split_pc,
               sheets_shapefile>>

encVars == <<sheets_param, sheets_layer, enc_pc, feature, records_read, heap, geometries,
             memory, filter_runs>>

startVars == <<params, start_pc, calls, output_data, output_db, output_db_path, databases,
               exported, thrown, error>>

vars == <<splitVars, encVars, startVars>>

\* python slice geometry[lo:hi] with 0-based lo, exclusive hi
Slice(geometry, lo, hi) == SubSeq(geometry, lo + 1, hi)

\* Engine.reverse: the sequence in opposite order
reverse(geometry) == [i \in 1..Len(geometry) |-> geometry[Len(geometry) + 1 - i]]

\* `None in geometry`
HasNone(geometry) == \E i \in 1..Len(geometry) : geometry[i] = None

\* [i for i, point in enumerate(geometry) if point is None], 0-based indexes
NoneIndexes(geometry) ==
  SelectSeq([i \in 1..Len(geometry) |-> i - 1], LAMBDA i : geometry[i + 1] = None)

\* Feature with the attributes bound once, to the first row the cursor yielded
Feature_FirstRowAttributes(attributes, geometry) ==
  [attributes |-> layer[1].attributes, geometry |-> geometry]

\* {'attributes': attributes, 'geometry': geometry}
Feature(attributes, geometry) == [attributes |-> attributes, geometry |-> geometry]

\* SplitSingle with the inner ring left in input winding order
SplitSingle_NoReverse(attributes, geometry, none_indexes) ==
  [outer |-> <<Feature(attributes, Slice(geometry, 0, none_indexes[1]))>>,
   inner |-> <<Feature(attributes, Slice(geometry, none_indexes[1] + 1, Len(geometry)))>>]

\* the branch for exactly one sentinel
SplitSingle(attributes, geometry, none_indexes) ==
  [outer |-> <<Feature(attributes, Slice(geometry, 0, none_indexes[1]))>>,
   inner |-> <<Feature(attributes,
                       reverse(Slice(geometry, none_indexes[1] + 1, Len(geometry))))>>]

\* PairStep with every inner slice starting on the sentinel instead of after it
PairStep_KeepsSentinel(attributes, geometry, none_indexes, i) ==
  LET current == none_indexes[i + 1]
      next == none_indexes[i + 2]
  IN IF i = 0
       THEN [outer |-> <<Feature(attributes, Slice(geometry, 0, current))>>,
             inner |-> <<Feature(attributes, reverse(Slice(geometry, current, next)))>>]
     ELSE IF i = Len(none_indexes) - 2
       THEN [outer |-> <<>>,
             inner |-> <<Feature(attributes, reverse(Slice(geometry, current, next))),
                         Feature(attributes,
                                 reverse(Slice(geometry, next, Len(geometry))))>>]
     ELSE [outer |-> <<>>,
           inner |-> <<Feature(attributes, reverse(Slice(geometry, current, next)))>>]

\* one iteration i (0-based) of the loop over zip(none_indexes[:-1], none_indexes[1:])
PairStep(attributes, geometry, none_indexes, i) ==
  LET current == none_indexes[i + 1]
      next == none_indexes[i + 2]
  IN IF i = 0
       THEN [outer |-> <<Feature(attributes, Slice(geometry, 0, current))>>,
             inner |-> <<Feature(attributes, reverse(Slice(geometry, current + 1, next)))>>]
     ELSE IF i = Len(none_indexes) - 2
       THEN [outer |-> <<>>,
             inner |-> <<Feature(attributes, reverse(Slice(geometry, current + 1, next))),
                         Feature(attributes,
                                 reverse(Slice(geometry, next + 1, Len(geometry))))>>]
     ELSE [outer |-> <<>>,
           inner |-> <<Feature(attributes, reverse(Slice(geometry, current + 1, next)))>>]

\* iterations i, i+1, ... of the loop over the pairs of sentinel indexes
RECURSIVE PairLoop(_, _, _, _)
PairLoop(attributes, geometry, none_indexes, i) ==
  IF i > Len(none_indexes) - 2
    THEN [outer |-> <<>>, inner |-> <<>>]
    ELSE LET step == PairStep(attributes, geometry, none_indexes, i)
             rest == PairLoop(attributes, geometry, none_indexes, i + 1)
         IN [outer |-> step.outer \o rest.outer, inner |-> step.inner \o rest.inner]

\* SplitStream with the sentinel-free stream reversed like an inner ring
SplitStream_ReversesOuter(attributes, geometry) ==
  IF HasNone(geometry)
    THEN LET none_indexes == NoneIndexes(geometry)
         IN IF Len(none_indexes) = 1
              THEN SplitSingle(attributes, geometry, none_indexes)
              ELSE PairLoop(attributes, geometry, none_indexes, 0)
    ELSE [outer |-> <<Feature(attributes, reverse(geometry))>>, inner |-> <<>>]

\* body of `for geometry in row_geom`: the features one stream adds
SplitStream(attributes, geometry) ==
  IF HasNone(geometry)
    THEN LET none_indexes == NoneIndexes(geometry)
         IN IF Len(none_indexes) = 1
              THEN SplitSingle(attributes, geometry, none_indexes)
              ELSE PairLoop(attributes, geometry, none_indexes, 0)
    ELSE [outer |-> <<Feature(attributes, geometry)>>, inner |-> <<>>]

\* streams (arcpy Arrays) of at least one and at most n entries
StreamsUpTo(n) == UNION {[1..m -> Entries] : m \in 1..n}

\* geometries of at most `parts` streams holding at most `room` entries together
RECURSIVE GeomsUpTo(_, _)
GeomsUpTo(parts, room) ==
  IF parts = 0 THEN {<<>>}
  ELSE {<<>>} \cup
       UNION {{<<s>> \o g : g \in GeomsUpTo(parts - 1, room - Len(s))} : s \in StreamsUpTo(room)}

RECURSIVE GeomLen(_)
GeomLen(geom) == IF geom = <<>> THEN 0 ELSE Len(Head(geom)) + GeomLen(Tail(geom))

RECURSIVE LayerLen(_)
LayerLen(rows) == IF rows = <<>> THEN 0 ELSE GeomLen(Head(rows).geom) + LayerLen(Tail(rows))

\* the row the cursor is on
row == layer[Len(layer)]

\* the inner loop over the parts of the current row has finished
RowFinished == IF layer = <<>> THEN TRUE ELSE geom_num = Len(row.geom)

SplitInit ==
  /\ layer = <<>>
  /\ geom_num = 0
  /\ outer_features = <<>>
  /\ inner_features = <<>>
  /\ total_nones = 0
  /\ split_pc = "cursor"
  /\ sheets_shapefile = <<>>

\* `for row in searchCursor`: the cursor yields the next row
FetchRow ==
  /\ split_pc = "cursor"
  /\ Len(layer) < MaxRows
  /\ RowFinished
  /\ \E attributes \in AttributeRows(Len(layer) + 1) :
       \E geom \in GeomsUpTo(MaxParts, MaxTotalLen - LayerLen(layer)) \ {<<>>} :
         layer' = Append(layer, [attributes |-> attributes, geom |-> geom])
  /\ geom_num' = 0
  /\ UNCHANGED <<outer_features, inner_features, total_nones, split_pc, sheets_shapefile>>
  /\ UNCHANGED encVars
  /\ UNCHANGED startVars

\* `for geometry in row_geom`: split the next part of the current row
SplitGeometry ==
  /\ split_pc = "cursor"
  /\ layer # <<>>
  /\ geom_num < Len(row.geom)
  /\ LET geometry == row.geom[geom_num + 1]
         added == SplitStream(row.attributes, geometry)
     IN /\ outer_features' = outer_features \o added.outer
        /\ inner_features' = inner_features \o added.inner
        /\ total_nones' = total_nones + Len(NoneIndexes(geometry))
  /\ geom_num' = geom_num + 1
  /\ UNCHANGED <<layer, split_pc, sheets_shapefile>>
  /\ UNCHANGED encVars
  /\ UNCHANGED startVars

\* the cursor is exhausted: return outer_features, inner_features
SplitReturn ==
  /\ split_pc = "cursor"
  /\ RowFinished
  /\ split_pc' = "returned"
  /\ UNCHANGED <<layer, geom_num, outer_features, inner_features, total_nones,
                 sheets_shapefile>>
  /\ UNCHANGED encVars
  /\ UNCHANGED startVars

\* the row insertRow writes for one feature: [polygon] + list(attributes[2:])
ShapefileRow(f) ==
  [polygon |-> f.geometry, attributes |-> SubSeq(f.attributes, 3, Len(f.attributes))]

\* convert_sheets with the inner rings handed over before the outer rings
ExportedFeatures_InnerFirst(outer, inner) == inner \o outer

\* the feature list convert_sheets hands to write_features_to_shapefile
ExportedFeatures(outer, inner) == outer \o inner

\* write_features_to_shapefile('sheets', layer, outer_features + inner_features,
\* 'output_sheets.shp'): one inserted row per feature, in list order
WriteFeaturesToShapefile ==
  /\ split_pc = "returned"
  /\ LET features == ExportedFeatures(outer_features, inner_features)
     IN sheets_shapefile' = [n \in 1..Len(features) |-> ShapefileRow(features[n])]
  /\ split_pc' = "written"
  /\ UNCHANGED <<layer, geom_num, outer_features, inner_features, total_nones>>
  /\ UNCHANGED encVars
  /\ UNCHANGED startVars

NextSplit == FetchRow \/ SplitGeometry \/ SplitReturn \/ WriteFeaturesToShapefile

(* ------------------------------ ENC reader ---------------------------- *)
\* The plane is abstracted to a finite set of locations: a geometry occupies the
\* locations of the coordinates it is built from, a sheet the locations it covers,
\* and two geometries intersect when they share a location.
Coords == {<<1, 2>>, <<3, 4>>}

GeomClasses == {"Point", "LineString", "Polygon"}

\* attribute mappings of the records (geojson 'properties')
Properties == {[DEPTH |-> 5], [DEPTH |-> 7, OBJNAM |-> 3]}

\* geojson null geometry (a record without geometry)
NullGeometry == [type |-> "null", coordinates |-> <<>>]

\* coordinate payloads a record of each geometry kind can carry
CoordinatesOf(type) ==
  CASE type = "Point" -> Coords
    [] type = "LineString" -> {<<<<1, 2>>, <<1, 2>>>>, <<<<1, 2>>, <<3, 4>>>>}
    [] type = "Polygon" ->
         {<< <<<<1, 2>>, <<1, 2>>>> >>,
          << <<<<1, 2>>, <<3, 4>>, <<1, 2>>>> >>,
          << <<<<1, 2>>, <<3, 4>>, <<1, 2>>>>, <<<<3, 4>>, <<3, 4>>>> >>}
    [] type = "MultiPoint" -> UNION {[1..n -> Coords] : n \in 0..MaxPoints}
    [] OTHER -> {<<>>}

\* geometry kinds OGR can report, "null" standing for a record without geometry
GeometryKinds == GeomClasses \cup {"MultiPoint", "MultiLineString", "null"}

\* the sheets shapefiles on disk and the locations each covers
SheetFiles == {"empty.shp", "north.shp", "south.shp"}

SheetCoverage(sheets_file) ==
  CASE sheets_file = <<"north.shp">> -> {<<1, 2>>}
    [] sheets_file = <<"south.shp">> -> {<<3, 4>>}
    [] OTHER -> {}

\* values of param_lookup['sheets'].valueAsText: None, or a text given as its
\* tokens (a quote, a semicolon or a run of other characters)
NoValue == [none |-> TRUE, text |-> <<>>]

Text(tokens) == [none |-> FALSE, text |-> tokens]

SheetsParams ==
  {NoValue,
   Text(<<"empty.shp">>),
   Text(<<"north.shp">>),
   Text(<<"south.shp">>),
   Text(<<"'", "north.shp", "'", ";", "empty.shp">>),
   Text(<<"north.shp", ";", "south.shp">>)}

\* str.replace("'", "")
RemoveQuotes(text) == SelectSeq(text, LAMBDA t : t # "'")

\* str.split(';')
RECURSIVE SplitSemicolon(_, _)
SplitSemicolon(text, current) ==
  IF text = <<>> THEN <<current>>
  ELSE IF Head(text) = ";" THEN <<current>> \o SplitSemicolon(Tail(text), <<>>)
  ELSE SplitSemicolon(Tail(text), Append(current, Head(text)))

\* arcpy.management.Merge of the sheets layers
RECURSIVE Merge(_)
Merge(sheets) ==
  IF sheets = <<>> THEN {} ELSE SheetCoverage(Head(sheets)) \cup Merge(Tail(sheets))

\* a layer or selection result that has not been made (None)
NoLayer == [made |-> FALSE, rows |-> <<>>, selected |-> {}]

\* a feature class that does not exist in the workspace
NoFeatureClass == [exists |-> FALSE, fields |-> {}, rows |-> <<>>]

LayerName(c) ==
  CASE c = "Point" -> "points_layer"
    [] c = "LineString" -> "lines_layer"
    [] c = "Polygon" -> "polygons_layer"

LayerNames == {LayerName(c) : c \in GeomClasses}

\* the geometry class whose features a feature class of the workspace holds
ClassOf(n) == CHOOSE c \in GeomClasses : LayerName(c) = n

\* ENCReaderEngine.__init__
EncInit ==
  /\ sheets_param \in SheetsParams
  /\ sheets_layer = {}
  /\ enc_pc = "idle"
  /\ feature = [ok |-> FALSE, geometry |-> NullGeometry, properties |-> [DEPTH |-> 5]]
  /\ records_read = 0
  /\ heap = <<>>
  /\ geometries = [c \in GeomClasses |->
                     [features |-> <<>>, layers |-> [passed |-> NoLayer, failed |-> NoLayer]]]
  /\ memory = [n \in LayerNames |-> NoFeatureClass]
  /\ filter_runs = 0

\* convert_enc_files up to enc_engine.start(): a missing sheets value has no
\* replace() and raises AttributeError
ConvertEncFiles ==
  /\ enc_pc = "idle"
  /\ IF sheets_param.none
       THEN /\ enc_pc' = "raised"
            /\ UNCHANGED sheets_layer
       ELSE /\ sheets_layer' = Merge(SplitSemicolon(RemoveQuotes(sheets_param.text), <<>>))
            /\ enc_pc' = "reading"
  /\ UNCHANGED <<sheets_param, feature, records_read, heap, geometries, memory, filter_runs>>
  /\ UNCHANGED splitVars
  /\ UNCHANGED startVars

\* feature_json['geometry']['type'] if feature_json['geometry'] else False
GeomType(feature_json) ==
  IF feature_json.geometry.type # "null" THEN feature_json.geometry.type ELSE "False"

\* json.loads(feature.ExportToJson())
ExportToJson(rec) == [geometry |-> rec.geometry, properties |-> rec.properties]

\* n references to the same dictionary
Repeat(ref, n) == [i \in 1..n |-> ref]

\* the MultiPoint branch appending the template once, whatever the number of points
ExplodeMultiPoint_OnePoint(dicts, rec) ==
  LET points == rec.geometry.coordinates
      feature_template == [ExportToJson(rec) EXCEPT !.geometry.type = "Point"]
      last == [feature_template EXCEPT !.geometry.coordinates = points[Len(points)]]
  IN IF points = <<>>
       THEN [heap |-> dicts, refs |-> <<>>]
       ELSE [heap |-> Append(dicts, last), refs |-> <<Len(dicts) + 1>>]

\* the MultiPoint branch with the template's type left as it was read
ExplodeMultiPoint_KeepsType(dicts, rec) ==
  LET points == rec.geometry.coordinates
      feature_template == ExportToJson(rec)
      last == [feature_template EXCEPT !.geometry.coordinates = points[Len(points)]]
  IN IF points = <<>>
       THEN [heap |-> dicts, refs |-> <<>>]
       ELSE [heap |-> Append(dicts, last), refs |-> Repeat(Len(dicts) + 1, Len(points))]

\* the MultiPoint branch: ONE template dictionary, its type set to Point, its
\* coordinates overwritten for every point, and a reference to it appended for
\* every point; after the loop it holds the last point
ExplodeMultiPoint(dicts, rec) ==
  LET points == rec.geometry.coordinates
      feature_template == [ExportToJson(rec) EXCEPT !.geometry.type = "Point"]
      last == [feature_template EXCEPT !.geometry.coordinates = points[Len(points)]]
  IN IF points = <<>>
       THEN [heap |-> dicts, refs |-> <<>>]
       ELSE [heap |-> Append(dicts, last), refs |-> Repeat(Len(dicts) + 1, Len(points))]

\* body of `for feature in layer` of get_enc_geometries
ReadEncFeature ==
  /\ enc_pc = "reading"
  /\ records_read < MaxRecords
  /\ \E ok \in BOOLEAN, type \in GeometryKinds, properties \in Properties :
       \E coordinates \in CoordinatesOf(type) :
         LET rec == [ok |-> ok,
                     geometry |-> IF type = "null" THEN NullGeometry
                                  ELSE [type |-> type, coordinates |-> coordinates],
                     properties |-> properties]
             geom_type == GeomType(ExportToJson(rec))
         IN /\ feature' = rec
            /\ IF ~ok
                 THEN UNCHANGED <<heap, geometries>>
               ELSE IF geom_type \in GeomClasses
                 THEN /\ heap' = Append(heap, ExportToJson(rec))
                      /\ geometries' =
                           [geometries EXCEPT ![geom_type].features = Append(@, Len(heap) + 1)]
               ELSE IF geom_type = "MultiPoint"
                 THEN LET exploded == ExplodeMultiPoint(heap, rec)
                      IN /\ heap' = exploded.heap
                         /\ geometries' =
                              [geometries EXCEPT !["Point"].features = @ \o exploded.refs]
               ELSE UNCHANGED <<heap, geometries>>
  /\ records_read' = records_read + 1
  /\ UNCHANGED <<sheets_param, sheets_layer, enc_pc, memory, filter_runs>>
  /\ UNCHANGED splitVars
  /\ UNCHANGED startVars

\* the file is exhausted: get_enc_geometries returns
EndOfEncFile ==
  /\ enc_pc = "reading"
  /\ enc_pc' = "normalized"
  /\ UNCHANGED <<sheets_param, sheets_layer, feature, records_read, heap, geometries,
                 memory, filter_runs>>
  /\ UNCHANGED splitVars
  /\ UNCHANGED startVars

\* get_all_fields
get_all_fields(features) ==
  UNION {DOMAIN heap[features[i]].properties : i \in 1..Len(features)}

\* CreateFeatureclass that leaves an existing feature class and its rows in place
CreateFeatureclass_KeepsRows(fc, fields) ==
  IF fc.exists THEN [fc EXCEPT !.fields = @ \cup fields]
  ELSE [exists |-> TRUE, fields |-> fields, rows |-> <<>>]

\* arcpy.management.CreateFeatureclass under arcpy.env.overwriteOutput = True,
\* followed by AddField for every field: a new, empty feature class
CreateFeatureclass(fc, fields) == [exists |-> TRUE, fields |-> fields, rows |-> <<>>]

\* the points the arcpy geometry of a feature is built from: the coordinate of a
\* Point, the coordinates of a LineString, the FIRST ring of a Polygon
Shape(c, geojson) ==
  CASE c = "Point" -> <<geojson.geometry.coordinates>>
    [] c = "LineString" -> geojson.geometry.coordinates
    [] c = "Polygon" -> geojson.geometry.coordinates[1]

\* [str(attr) for attr in properties.values()], keyed by the explicit fields
AttributeValues(geojson) ==
  [f \in DOMAIN geojson.properties |-> ToString(geojson.properties[f])]

\* the row one InsertCursor.insertRow adds
InsertedRow(c, geojson) ==
  [shape |-> Shape(c, geojson), values |-> AttributeValues(geojson)]

\* the feature class after one row was inserted for every feature
InsertRows(fc, c, features) ==
  [fc EXCEPT !.rows = @ \o [i \in 1..Len(features) |-> InsertedRow(c, heap[features[i]])]]

\* the arcpy geometry shares a location with the sheets
Intersects(shape, sheets) == \E i \in 1..Len(shape) : shape[i] \in sheets

\* SelectLayerByLocation(layer, 'INTERSECT', sheets_layer): a layer on the feature
\* class with the intersecting rows selected
SelectLayerByLocation(fc, sheets) ==
  [made |-> TRUE, rows |-> fc.rows,
   selected |-> {oid \in 1..Len(fc.rows) : Intersects(fc.rows[oid].shape, sheets)}]

\* MakeFeatureLayer on a selection result: a second layer on the same rows that
\* carries the selection
MakeFeatureLayer(result) == result

\* SelectLayerByLocation(layer, selection_type='SWITCH_SELECTION')
SwitchSelection(lyr) == [lyr EXCEPT !.selected = (1..Len(lyr.rows)) \ @]

\* the part of perform_spatial_filter for one geometry class
FilterClass(c) ==
  LET features == geometries[c].features
      fc == InsertRows(CreateFeatureclass(memory[LayerName(c)], get_all_fields(features)),
                       c, features)
      passed == SelectLayerByLocation(fc, sheets_layer)
      passed_layer == MakeFeatureLayer(passed)
      failed == SwitchSelection(passed_layer)
  IN [fc |-> fc, layers |-> [passed |-> passed, failed |-> failed]]

\* perform_spatial_filter(sheets_layer): points, lines, polygons
PerformSpatialFilter ==
  /\ enc_pc \in {"normalized", "filtered"}
  /\ filter_runs < MaxFilterRuns
  /\ memory' = [n \in LayerNames |-> FilterClass(ClassOf(n)).fc]
  /\ geometries' = [c \in GeomClasses |-> [geometries[c] EXCEPT !.layers = FilterClass(c).layers]]
  /\ filter_runs' = filter_runs + 1
  /\ enc_pc' = "filtered"
  /\ UNCHANGED <<sheets_param, sheets_layer, feature, records_read, heap>>
  /\ UNCHANGED splitVars
  /\ UNCHANGED startVars

NextENC == ConvertEncFiles \/ ReadEncFeature \/ EndOfEncFile \/ PerformSpatialFilter

(* ------------------------------- start -------------------------------- *)
\* SpecStart follows the engine's own state through start: each step stands for
\* the whole method, the work of its collaborators summed up in its outcome.

\* the error no collaborator and no step has raised
NoError == "none"

\* the errors arcpy, GDAL or the file system can raise inside a step
ExternalErrors == {"ExecuteError", "RuntimeError"}

\* the value None of an output_data entry; also output_db_path before it is set
NoPath == <<>>

\* os.path.join(output_folder, name)
Path(name) == <<"output_folder", name>>

\* the parameters of param_lookup that one step tests, besides sheets
ParamNames ==
  {"junctions", "maritime_boundary_pts", "maritime_boundary_features",
   "maritime_boundary_baselines"}

\* the keys of output_data in dictionary order: the parameters named by the steps,
\* then the keys export_enc_layers adds
OutputNames ==
  <<"sheets", "junctions", "maritime_boundary_pts", "maritime_boundary_features",
    "maritime_boundary_baselines", "enc_files",
    "enc_Point_passed", "enc_Point_failed", "enc_LineString_passed",
    "enc_LineString_failed", "enc_Polygon_passed", "enc_Polygon_failed">>

OutputNameSet == {OutputNames[n] : n \in 1..Len(OutputNames)}

\* the calls of start, in order
Steps ==
  <<"convert_sheets", "convert_junctions", "convert_bottom_samples",
    "convert_maritime_datasets", "convert_enc_files", "create_output_db",
    "write_to_geopackage">>

\* where start stands after a step has returned
NextStep(step) ==
  LET n == CHOOSE m \in 1..Len(Steps) : Steps[m] = step
  IN IF n = Len(Steps) THEN "done" ELSE Steps[n + 1]

StartInit ==
  /\ params \in [ParamNames -> BOOLEAN]
  /\ start_pc = "idle"
  /\ calls = 0
  /\ output_data = [n \in OutputNameSet |-> NoPath]
  /\ output_db = FALSE
  /\ output_db_path = NoPath
  /\ databases = 0
  /\ exported = <<>>
  /\ thrown = NoError
  /\ error = NoError

\* a method runs as the step start has reached, or called on its own before start
Called(step) == IF start_pc = step THEN TRUE ELSE start_pc = "idle" /\ calls < MaxCalls

\* what the collaborators of a step can do: failures are followed through start
Outcomes == IF start_pc = "idle" THEN {NoError} ELSE {NoError} \cup ExternalErrors

\* the step ends with err: start has no try, so an error ends the run
Finish(step, err) ==
  /\ error' = err
  /\ IF start_pc = step
       THEN /\ start_pc' = IF err = NoError THEN NextStep(step) ELSE "raised"
            /\ calls' = calls
       ELSE /\ start_pc' = start_pc
            /\ calls' = calls + 1

\* a collaborator raised err
Throw(err) == thrown' = IF err \in ExternalErrors THEN err ELSE thrown

\* start(): the first call is convert_sheets
Start ==
  /\ start_pc = "idle"
  /\ start_pc' = Steps[1]
  /\ thrown' = NoError
  /\ error' = NoError
  /\ UNCHANGED <<params, calls, output_data, output_db, output_db_path, databases, exported>>
  /\ UNCHANGED <<splitVars, encVars>>

\* convert_sheets: with a sheets parameter, merge, split and write output_sheets.shp
ConvertSheets ==
  /\ Called("convert_sheets")
  /\ IF sheets_param.none
       THEN /\ Finish("convert_sheets", NoError)
            /\ UNCHANGED <<output_data, thrown>>
       ELSE \E err \in Outcomes :
              /\ output_data' = IF err = NoError
                                  THEN [output_data EXCEPT !["sheets"] = Path("output_sheets.shp")]
                                  ELSE output_data
              /\ Throw(err)
              /\ Finish("convert_sheets", err)
  /\ UNCHANGED <<params, output_db, output_db_path, databases, exported>>
  /\ UNCHANGED <<splitVars, encVars>>

\* convert_junctions: with a junctions parameter, merge and export_to_shapefile
ConvertJunctions ==
  /\ Called("convert_junctions")
  /\ IF ~params["junctions"]
       THEN /\ Finish("convert_junctions", NoError)
            /\ UNCHANGED <<output_data, thrown>>
       ELSE \E err \in Outcomes :
              /\ output_data' = IF err = NoError
                                  THEN [output_data EXCEPT
                                          !["junctions"] = Path("output_junctions.shp")]
                                  ELSE output_data
              /\ Throw(err)
              /\ Finish("convert_junctions", err)
  /\ UNCHANGED <<params, output_db, output_db_path, databases, exported>>
  /\ UNCHANGED <<splitVars, encVars>>

\* convert_bottom_samples: return
ConvertBottomSamples ==
  /\ Called("convert_bottom_samples")
  /\ Finish("convert_bottom_samples", NoError)
  /\ UNCHANGED <<params, output_data, output_db, output_db_path, databases, exported, thrown>>
  /\ UNCHANGED <<splitVars, encVars>>


\* positional parameters of make_maritime_boundary_pts_layer(self), self apart
PtsLayerParameters == 0

\* positional arguments of the call self.make_maritime_boundary_pts_layer(points_file)
PtsLayerArguments == 1

\* a call of a method without defaults raises TypeError unless it passes as many
\* positional arguments as the method has parameters
CallRaisesTypeError(arguments, parameters) == arguments # parameters

\* convert_maritime_boundary_baselines: one layer per points file, merged, copied
\* to output_maritime_baselines.shp
ConvertMaritimeBoundaryBaselines(data) ==
  IF CallRaisesTypeError(PtsLayerArguments, PtsLayerParameters)
    THEN [error |-> "TypeError", output_data |-> data]
    ELSE [error |-> NoError,
          output_data |-> [data EXCEPT !["maritime_boundary_baselines"] =
                                         Path("output_maritime_baselines.shp")]]

\* convert_maritime_boundary_points_and_features: merged points and features,
\* copied to output_maritime_features.shp
ConvertMaritimeBoundaryPointsAndFeatures(data) ==
  [error |-> NoError,
   output_data |-> [data EXCEPT !["maritime_boundary_features"] =
                                  Path("output_maritime_features.shp")]]

\* all three maritime parameters have a value
MaritimeProvided ==
  /\ params["maritime_boundary_pts"]
  /\ params["maritime_boundary_features"]
  /\ params["maritime_boundary_baselines"]

\* convert_maritime_datasets: with all three parameters, the baselines and then
\* the points and features
ConvertMaritimeDatasets ==
  /\ Called("convert_maritime_datasets")
  /\ IF MaritimeProvided
       THEN LET baselines == ConvertMaritimeBoundaryBaselines(output_data)
                result == IF baselines.error = NoError
                            THEN ConvertMaritimeBoundaryPointsAndFeatures(
                                   baselines.output_data)
                            ELSE baselines
            IN /\ output_data' = result.output_data
               /\ Finish("convert_maritime_datasets", result.error)
       ELSE /\ Finish("convert_maritime_datasets", NoError)
            /\ UNCHANGED output_data
  /\ UNCHANGED <<params, output_db, output_db_path, databases, exported, thrown>>
  /\ UNCHANGED <<splitVars, encVars>>

\* the entries export_enc_layers sets: passed and failed of each geometry class
EncOutputs(data) ==
  [n \in OutputNameSet |->
     IF n = "enc_Point_passed" THEN Path("Point_passed.shp")
     ELSE IF n = "enc_Point_failed" THEN Path("Point_failed.shp")
     ELSE IF n = "enc_LineString_passed" THEN Path("LineString_passed.shp")
     ELSE IF n = "enc_LineString_failed" THEN Path("LineString_failed.shp")
     ELSE IF n = "enc_Polygon_passed" THEN Path("Polygon_passed.shp")
     ELSE IF n = "enc_Polygon_failed" THEN Path("Polygon_failed.shp")
     ELSE data[n]]

\* convert_enc_files as one step: the sheets text is split without a test for
\* None, the ENC engine runs, export_enc_layers writes its layers
ConvertEncFilesStep ==
  /\ Called("convert_enc_files")
  /\ IF sheets_param.none
       THEN /\ Finish("convert_enc_files", "AttributeError")
            /\ UNCHANGED <<output_data, thrown>>
       ELSE \E err \in Outcomes :
              /\ output_data' = IF err = NoError THEN EncOutputs(output_data)
                                                 ELSE output_data
              /\ Throw(err)
              /\ Finish("convert_enc_files", err)
  /\ UNCHANGED <<params, output_db, output_db_path, databases, exported>>
  /\ UNCHANGED <<splitVars, encVars>>

\* create_output_db: unless output_db is set, set output_db_path, create the
\* database and set output_db
CreateOutputDb ==
  /\ Called("create_output_db")
  /\ IF ~output_db
       THEN \E err \in Outcomes :
              /\ output_db_path' = Path("csf_prf_geopackage")
              /\ databases' = IF err = NoError THEN databases + 1 ELSE databases
              /\ output_db' = (err = NoError)
              /\ Throw(err)
              /\ Finish("create_output_db", err)
       ELSE /\ Finish("create_output_db", NoError)
            /\ UNCHANGED <<output_db_path, databases, output_db, thrown>>
  /\ UNCHANGED <<params, output_data, exported>>
  /\ UNCHANGED <<splitVars, encVars>>

\* write_to_geopackage with `except Exception`
Catches_Everything(err) == TRUE

\* `except CompositeSourceCreatorException`: the one error the handler of
\* write_to_geopackage catches
Catches(err) == err = "CompositeSourceCreatorException"

\* the loop of write_to_geopackage over the entries `names` of output_data:
\* ExportFeatures raises err at the entry `fail`; reading output_db_path before
\* create_output_db has set it raises AttributeError inside the try
RECURSIVE ExportLoop(_, _, _)
ExportLoop(names, fail, err) ==
  IF names = <<>>
    THEN [exported |-> <<>>, error |-> NoError, thrown |-> NoError]
  ELSE LET output_name == Head(names)
           data == output_data[output_name]
           rest == ExportLoop(Tail(names), fail, err)
       IN IF data = NoPath
            THEN rest
          ELSE IF output_db_path = NoPath
            THEN IF Catches("AttributeError")
                   THEN rest
                   ELSE [exported |-> <<>>, error |-> "AttributeError", thrown |-> NoError]
          ELSE IF output_name = fail
            THEN IF Catches(err)
                   THEN [rest EXCEPT !.thrown = err]
                   ELSE [exported |-> <<>>, error |-> err, thrown |-> err]
          ELSE [rest EXCEPT !.exported = <<output_name>> \o rest.exported]

\* the entry at which ExportFeatures can fail: none, or one that has a value
FailChoices ==
  IF start_pc = "idle" THEN {"nothing"}
  ELSE {"nothing"} \cup {n \in OutputNameSet : output_data[n] # NoPath}

\* write_to_geopackage: export every entry of output_data that has a value
WriteToGeopackage ==
  /\ Called("write_to_geopackage")
  /\ \E fail \in FailChoices :
       \E err \in ExternalErrors :
         LET result == ExportLoop(OutputNames, fail, err)
         IN /\ exported' = exported \o result.exported
            /\ Throw(result.thrown)
            /\ Finish("write_to_geopackage", result.error)
  /\ UNCHANGED <<params, output_data, output_db, output_db_path, databases>>
  /\ UNCHANGED <<splitVars, encVars>>

NextStart ==
  \/ Start
  \/ ConvertSheets
  \/ ConvertJunctions
  \/ ConvertBottomSamples
  \/ ConvertMaritimeDatasets
  \/ ConvertEncFilesStep
  \/ CreateOutputDb
  \/ WriteToGeopackage

(* --------------------------- specifications --------------------------- *)
\* convert_sheets with a sheets parameter given, the ENC engine constructed and
\* left untouched
InitSplit ==
  /\ SplitInit
  /\ EncInit
  /\ sheets_param = Text(<<"north.shp">>)
  /\ StartInit
  /\ params = [n \in ParamNames |-> FALSE]

SpecSplit == InitSplit /\ [][NextSplit]_vars

\* convert_enc_files alone, the ring decomposer left untouched
InitENC == SplitInit /\ EncInit /\ StartInit /\ params = [n \in ParamNames |-> FALSE]

SpecENC == InitENC /\ [][NextENC]_vars

\* start and the methods it calls, the ring decomposer and the ENC reader summed
\* up in the steps convert_sheets and convert_enc_files
InitStart == SplitInit /\ EncInit /\ StartInit

SpecStart == InitStart /\ [][NextStart]_vars

Spec == SpecENC
(* ---------------------- ring decomposer: properties ------------------- *)
\* the stream a SplitGeometry step is about to split
NextGeometry == row.geom[geom_num + 1]

\* the stream the last SplitGeometry step has split
LastGeometry == row.geom[geom_num]

\* a SplitGeometry step has just been taken
JustSplit == split_pc = "cursor" /\ layer # <<>> /\ geom_num > 0

\* the rings a step appends to outer_features and to inner_features
AddedOuter == SubSeq(outer_features', Len(outer_features) + 1, Len(outer_features'))
AddedInner == SubSeq(inner_features', Len(inner_features) + 1, Len(inner_features'))

\* a is b read backwards
IsReverseOf(a, b) ==
  /\ Len(a) = Len(b)
  /\ \A i \in 1..Len(a) : a[i] = b[Len(b) + 1 - i]

\* the maximal sentinel-free segments after the first sentinel, in stream order
InnerSegments(geometry) ==
  LET ni == NoneIndexes(geometry)
  IN [j \in 1..Len(ni) |->
        SubSeq(geometry, ni[j] + 2, IF j < Len(ni) THEN ni[j + 1] ELSE Len(geometry))]

\* C1: a stream with k sentinels gives exactly one outer ring and exactly k
\* inner rings, for every k >= 0.
C1_OneOuterKInners ==
  [][SplitGeometry =>
       /\ Len(AddedOuter) = 1
       /\ Len(AddedInner) = Len(NoneIndexes(NextGeometry))]_splitVars

\* C2: every inner ring a stream adds is the exact reverse of one maximal
\* sentinel-free segment lying after the stream's first sentinel; so it holds no
\* sentinel and no entry of the outer segment.
C2_InnerIsReversedSegment ==
  [][SplitGeometry =>
       \A n \in 1..Len(AddedInner) :
         /\ \E j \in 1..Len(InnerSegments(NextGeometry)) :
              IsReverseOf(AddedInner[n].geometry, InnerSegments(NextGeometry)[j])
         /\ ~HasNone(AddedInner[n].geometry)]_splitVars

\* C2 witness: a stream with a sentinel has been split and its last inner ring has
\* two different vertices, so that reversed and input order differ.
C2_Witness ==
  /\ JustSplit
  /\ HasNone(LastGeometry)
  /\ inner_features # <<>>
  /\ LET ring == inner_features[Len(inner_features)].geometry
     IN /\ Len(ring) >= 2
        /\ ring[1] # ring[2]
        /\ Len(NoneIndexes(LastGeometry)) >= 3

\* C3: a stream without sentinel is emitted whole and in input order as the one
\* outer ring, and adds no inner ring.
C3_NoSentinelWholeOuter ==
  [][(SplitGeometry /\ ~HasNone(NextGeometry)) =>
       /\ Len(AddedOuter) = 1
       /\ AddedOuter[1].geometry = NextGeometry
       /\ AddedInner = <<>>]_splitVars

\* C3 witness: a sentinel-free stream of two different vertices has been split.
C3_Witness ==
  /\ JustSplit
  /\ ~HasNone(LastGeometry)
  /\ Len(LastGeometry) >= 2
  /\ LastGeometry[1] # LastGeometry[2]
  /\ outer_features[Len(outer_features)].geometry = LastGeometry

\* C4: a stream with exactly one sentinel, at index i, gives outer =
\* vertices[0:i] in input order and exactly one inner ring,
\* reverse(vertices[i+1:end]).
C4_OneSentinel ==
  [][(SplitGeometry /\ Len(NoneIndexes(NextGeometry)) = 1) =>
       LET i == NoneIndexes(NextGeometry)[1]
       IN /\ Len(AddedOuter) = 1
          /\ AddedOuter[1].geometry = SubSeq(NextGeometry, 1, i)
          /\ Len(AddedInner) = 1
          /\ IsReverseOf(AddedInner[1].geometry,
                         SubSeq(NextGeometry, i + 2, Len(NextGeometry)))]_splitVars

\* C4 witness: a stream with one sentinel, a non-empty outer segment and an inner
\* segment of two different vertices has been split.
C4_Witness ==
  /\ JustSplit
  /\ Len(NoneIndexes(LastGeometry)) = 1
  /\ NoneIndexes(LastGeometry)[1] >= 1
  /\ Len(LastGeometry) = NoneIndexes(LastGeometry)[1] + 3
  /\ LastGeometry[Len(LastGeometry)] # LastGeometry[Len(LastGeometry) - 1]
  /\ inner_features # <<>>

\* C11: every ring (the outer and each inner) a row's stream adds carries that
\* row's attributes, row[1:]; the object id in them names the row the cursor is
\* on, so no ring carries the attributes of another row.
C11_RingsCarryRowAttributes ==
  [][SplitGeometry =>
       /\ \A n \in 1..Len(AddedOuter) :
            /\ AddedOuter[n].attributes = row.attributes
            /\ AddedOuter[n].attributes[1] = Len(layer)
       /\ \A n \in 1..Len(AddedInner) :
            /\ AddedInner[n].attributes = row.attributes
            /\ AddedInner[n].attributes[1] = Len(layer)]_splitVars

\* C11 witness: the second row, whose registry number differs from the first
\* row's, has been split into an outer and an inner ring that carry its attributes,
\* and a ring of the first row is in the outer list.
C11_Witness ==
  /\ JustSplit
  /\ Len(layer) = 2
  /\ layer[1].attributes[3] # layer[2].attributes[3]
  /\ HasNone(LastGeometry)
  /\ Len(outer_features) = 2
  /\ outer_features[1].attributes = layer[1].attributes
  /\ outer_features[2].attributes = layer[2].attributes
  /\ inner_features # <<>>
  /\ inner_features[Len(inner_features)].attributes = layer[2].attributes

\* the empty gaps of a stream: the positions of its empty inner segments
EmptyGaps(geometry) ==
  {j \in 1..Len(InnerSegments(geometry)) : InnerSegments(geometry)[j] = <<>>}

\* the positions of the rings with zero points in a list of rings
EmptyRings(rings) == {n \in 1..Len(rings) : rings[n].geometry = <<>>}

\* C12: a stream with a leading, a trailing or two adjacent sentinels is split
\* without an error; a sentinel at index 0 gives an outer ring with zero vertices,
\* and each empty gap (after a trailing sentinel, between adjacent sentinels) gives
\* an inner ring with zero points that is kept in the inner list.
C12_EmptyGapsKept ==
  [][SplitGeometry =>
       /\ (NextGeometry[1] = None) =>
            (Len(AddedOuter) = 1 /\ AddedOuter[1].geometry = <<>>)
       /\ Cardinality(EmptyRings(AddedInner)) =
            Cardinality(EmptyGaps(NextGeometry))]_splitVars

\* the streams of a row, each with the row's attributes, in part order
RowStreams(r) ==
  [p \in 1..Len(r.geom) |-> [attributes |-> r.attributes, geometry |-> r.geom[p]]]

\* the streams of a list of rows, in row order
RECURSIVE AllStreams(_)
AllStreams(rows) ==
  IF rows = <<>> THEN <<>> ELSE RowStreams(Head(rows)) \o AllStreams(Tail(rows))

\* the segment of a stream before its first sentinel
OuterSegment(geometry) ==
  IF HasNone(geometry) THEN SubSeq(geometry, 1, NoneIndexes(geometry)[1]) ELSE geometry

\* the rings are reversed segments taken from segs in segs' order
RECURSIVE InSegmentOrder(_, _)
InSegmentOrder(rings, segs) ==
  IF rings = <<>> THEN TRUE
  ELSE IF segs = <<>> THEN FALSE
  ELSE IF IsReverseOf(Head(rings).geometry, Head(segs))
    THEN InSegmentOrder(Tail(rings), Tail(segs))
    ELSE InSegmentOrder(rings, Tail(segs))

\* C13: over several rows the outer list holds one outer ring per stream, in row
\* order; the inner list grows at its end, row by row, and the inner rings of one
\* stream stand in the order of their segments; convert_sheets writes all outer
\* rings followed by all inner rings.
C13_SequentialOrder ==
  [][/\ SplitGeometry =>
          /\ outer_features = SubSeq(outer_features', 1, Len(outer_features))
          /\ inner_features = SubSeq(inner_features', 1, Len(inner_features))
          /\ \A n \in 1..Len(AddedInner) : AddedInner[n].attributes[1] = Len(layer)
          /\ InSegmentOrder(AddedInner, InnerSegments(NextGeometry))
     /\ WriteFeaturesToShapefile =>
          /\ Len(outer_features) = Len(AllStreams(layer))
          /\ \A n \in 1..Len(outer_features) :
               /\ outer_features[n].attributes = AllStreams(layer)[n].attributes
               /\ outer_features[n].geometry = OuterSegment(AllStreams(layer)[n].geometry)
          /\ \A m, n \in 1..Len(inner_features) :
               m <= n => inner_features[m].attributes[1] <= inner_features[n].attributes[1]
          /\ Len(sheets_shapefile') = Len(outer_features) + Len(inner_features)
          /\ \A n \in 1..Len(outer_features) :
               sheets_shapefile'[n] = ShapefileRow(outer_features[n])
          /\ \A n \in 1..Len(inner_features) :
               sheets_shapefile'[Len(outer_features) + n] =
                 ShapefileRow(inner_features[n])]_splitVars

\* C13 witness: two rows, each with an outer and an inner ring, have been written:
\* the second row's outer ring stands before the first row's inner ring, and the
\* two differ.
C13_Witness ==
  /\ split_pc = "written"
  /\ Len(layer) = 2
  /\ Len(outer_features) = 2
  /\ Len(inner_features) = 2
  /\ inner_features[1].attributes[1] = 1
  /\ inner_features[2].attributes[1] = 2
  /\ Len(sheets_shapefile) = 4
  /\ sheets_shapefile[2] = ShapefileRow(outer_features[2])
  /\ sheets_shapefile[3] = ShapefileRow(inner_features[1])
  /\ sheets_shapefile[2] # sheets_shapefile[3]
(* ------------------------- ENC reader: properties --------------------- *)
\* a step that read one record of the ENC file
ReadStep == records_read' = records_read + 1

\* a step that ran perform_spatial_filter
FilterStep == filter_runs' = filter_runs + 1

\* the features of a geometry class, as references into the heap
FeaturesOf(c) == geometries[c].features

\* the object ids a selection result holds
Selected(c, which) == geometries[c].layers[which].selected

\* the locations a sequence of coordinates lies on
Locations(coordinates) == {coordinates[i] : i \in 1..Len(coordinates)}

RECURSIVE HoleLocations(_)
HoleLocations(rings) ==
  IF rings = <<>> THEN {} ELSE Locations(Head(rings)) \cup HoleLocations(Tail(rings))

\* the locations the geometry of a stored feature occupies; a Polygon occupies what
\* its first (exterior) ring encloses less what its further rings (holes) cut out
Region(c, geojson) ==
  CASE c = "Point" -> {geojson.geometry.coordinates}
    [] c = "LineString" -> Locations(geojson.geometry.coordinates)
    [] c = "Polygon" -> Locations(geojson.geometry.coordinates[1])
                          \ HoleLocations(Tail(geojson.geometry.coordinates))

\* C5: after perform_spatial_filter, passed and failed partition the features of
\* every geometry class (|passed| + |failed| = |collection|, none dropped, none in
\* both), passed holding exactly the features that intersect the sheets.
C5_FilterPartitions ==
  enc_pc = "filtered" =>
    \A c \in GeomClasses :
      LET n == Len(FeaturesOf(c))
          passed == Selected(c, "passed")
          failed == Selected(c, "failed")
      IN /\ passed \cap failed = {}
         /\ passed \cup failed = 1..n
         /\ Cardinality(passed) + Cardinality(failed) = n
         /\ \A i \in 1..n :
              i \in passed <=> Region(c, heap[FeaturesOf(c)[i]]) \cap sheets_layer # {}

\* the sheets value is missing, or the sheets it names cover nothing
SheetsEmptyOrMissing ==
  IF sheets_param.none THEN TRUE
  ELSE Merge(SplitSemicolon(RemoveQuotes(sheets_param.text), <<>>)) = {}

\* C6: with the sheets empty or not supplied the run does not fail, and the
\* classification ends with nothing passed and every feature failed.
C6_EmptySheetsAllFailed ==
  SheetsEmptyOrMissing =>
    /\ enc_pc # "raised"
    /\ enc_pc = "filtered" =>
         \A c \in GeomClasses :
           /\ Selected(c, "passed") = {}
           /\ Selected(c, "failed") = 1..Len(FeaturesOf(c))

\* C7: a MultiPoint record of N coordinates appends exactly N features to the Point
\* collection and none to the others, each of type Point and each with the
\* record's attribute mapping.
C7_MultiPointExplodes ==
  [][(ReadStep /\ feature'.ok /\ feature'.geometry.type = "MultiPoint") =>
       LET N == Len(feature'.geometry.coordinates)
           old == geometries["Point"].features
           new == geometries'["Point"].features
       IN /\ Len(new) = Len(old) + N
          /\ SubSeq(new, 1, Len(old)) = old
          /\ geometries'["LineString"].features = geometries["LineString"].features
          /\ geometries'["Polygon"].features = geometries["Polygon"].features
          /\ \A i \in (Len(old) + 1)..Len(new) :
               /\ heap'[new[i]].geometry.type = "Point"
               /\ heap'[new[i]].properties = feature'.properties]_vars

\* C7 witness: a MultiPoint record of two coordinates has been read and the Point
\* collection holds its two features.
C7_Witness ==
  /\ enc_pc = "reading"
  /\ feature.ok
  /\ feature.geometry.type = "MultiPoint"
  /\ Len(feature.geometry.coordinates) = 2
  /\ Len(FeaturesOf("Point")) >= 2
  /\ FeaturesOf("LineString") = <<>>

\* C8: after a MultiPoint record with coordinates c1..cN was exploded, the i-th of
\* its Point features has coordinates ci.
C8_EachPointKeepsItsCoordinate ==
  (feature.ok /\ feature.geometry.type = "MultiPoint") =>
    LET cs == feature.geometry.coordinates
        refs == FeaturesOf("Point")
        N == Len(cs)
    IN /\ Len(refs) >= N
       /\ \A i \in 1..N : heap[refs[Len(refs) - N + i]].geometry.coordinates = cs[i]

\* every stored feature has the geometry type of its collection
TypeInv ==
  \A c \in GeomClasses :
    \A i \in 1..Len(FeaturesOf(c)) : heap[FeaturesOf(c)[i]].geometry.type = c

\* C9: every feature stored in geometries[c]['features'] has geometry type c, and a
\* record of any other kind (MultiPoint apart) or without geometry is added to no
\* collection and does not stop the reading.
C9_OnlyThreeKinds ==
  /\ []TypeInv
  /\ [][(ReadStep /\ feature'.ok
           /\ feature'.geometry.type \notin (GeomClasses \cup {"MultiPoint"})) =>
          /\ \A c \in GeomClasses : geometries'[c].features = geometries[c].features
          /\ enc_pc' = "reading"]_vars

\* C9 witness: after a stored feature, a record of an unsupported kind has been read
\* and the reading goes on.
C9_Witness ==
  /\ enc_pc = "reading"
  /\ records_read = 2
  /\ feature.ok
  /\ feature.geometry.type = "MultiLineString"
  /\ Len(FeaturesOf("Point")) = 2
  /\ TypeInv

\* C10: perform_spatial_filter run again on the same collections and sheets gives
\* the same passed and failed results for every geometry class.
C10_FilterRepeatable ==
  [][(FilterStep /\ enc_pc = "filtered") => geometries' = geometries]_vars

\* C10 witness: the filter has run twice over points of which one passed and one
\* failed.
C10_Witness ==
  /\ enc_pc = "filtered"
  /\ filter_runs = 2
  /\ Selected("Point", "passed") # {}
  /\ Selected("Point", "failed") # {}

\* the record the last ReadEncFeature step read is skipped: its geometry is empty
\* or of a kind that is neither a geometry class nor MultiPoint
Skipped(rec) ==
  /\ rec.ok
  /\ GeomType(ExportToJson(rec)) \notin GeomClasses \cup {"MultiPoint"}

\* C15: after normalization the engine state holds, for each skipped kind, the
\* number of records skipped (empty geometries included), the counts adding up
\* with the records that produced features to the records read; so every skipped
\* record changes the state the engine keeps (geometries and the dictionaries
\* it refers to).
C15_SkipsAreCounted ==
  [][(ReadStep /\ Skipped(feature')) =>
       <<geometries, heap>>' # <<geometries, heap>>]_vars

(* --------------------------- start: properties ------------------------ *)
\* C14: an error a collaborator raises in a step of start (a conversion, the
\* classification, the creation of the database, an export inside
\* write_to_geopackage) ends start with that same error, neither caught nor
\* replaced, and no later step runs.
C14_ErrorEndsStart ==
  /\ []((start_pc # "idle" /\ thrown # NoError) =>
          (start_pc = "raised" /\ error = thrown))
  /\ [][start_pc = "raised" => UNCHANGED vars]_vars

\* C14 witness: start has created the database and exported an entry, then
\* ExportFeatures raised RuntimeError and start ended with it.
C14_Witness ==
  /\ start_pc = "raised"
  /\ thrown = "RuntimeError"
  /\ error = "RuntimeError"
  /\ databases = 1
  /\ exported # <<>>
  /\ Len(exported) < Cardinality({n \in OutputNameSet : output_data[n] # NoPath})

\* the entries of output_data that have a value, in dictionary order
SetEntries == SelectSeq(OutputNames, LAMBDA n : output_data[n] # NoPath)

\* C16: on one engine the database is created at most once, whatever the sequence
\* of create_output_db and write_to_geopackage calls: a call after the first
\* creates nothing and leaves output_db_path as it is; in start the database exists
\* before anything is exported; write_to_geopackage exports exactly the entries of
\* output_data that have a value and skips those still None.
C16_DatabaseOnceExportsSet ==
  /\ [](databases <= 1)
  /\ [][(CreateOutputDb /\ databases >= 1) =>
          UNCHANGED <<databases, output_db_path, output_db>>]_vars
  /\ [][(exported' # exported) => databases = 1]_vars
  /\ [][(WriteToGeopackage /\ thrown' = NoError) =>
          exported' = exported \o SetEntries]_vars

\* C17: with all three maritime parameters given, convert_maritime_datasets runs
\* the baselines and then the points and features to the end and sets both
\* output_data entries to the shapefile paths; with one of them missing it runs
\* neither and both entries stay None.
C17_MaritimeBothOrNeither ==
  [][ConvertMaritimeDatasets =>
       /\ error' = NoError
       /\ IF MaritimeProvided
            THEN /\ output_data'["maritime_boundary_baselines"] =
                      Path("output_maritime_baselines.shp")
                 /\ output_data'["maritime_boundary_features"] =
                      Path("output_maritime_features.shp")
            ELSE /\ output_data'["maritime_boundary_baselines"] = NoPath
                 /\ output_data'["maritime_boundary_features"] = NoPath]_vars
====
